---------------------------- MODULE Spec2Model ----------------------------
(***************************************************************************)
(* Retrieval fusion and confidence scoring of the support bot:             *)
(* the two search adapters (tool/search_xyz_qa.py,                         *)
(* tool/search_xyz_manual.py), the unified search engine                   *)
(* (tool/__init__.py), the agent (src/agent.py) and the REST handlers      *)
(* (src/api.py).                                                           *)
(*                                                                         *)
(* Numbers.  Distances and similarity scores are floats in the code; here  *)
(* they live on a grid of tenths: the integer 7 is 0.7, the integer 12 is  *)
(* 1.2.  A confidence is an exact fraction [num, den] in lowest terms.     *)
(* Text.  A text is a sequence of one-character strings; the Japanese      *)
(* keywords of the classifier are written in romaji, one string per kana   *)
(* or kanji of the keyword.                                                *)
(***************************************************************************)
EXTENDS Integers, Sequences, FiniteSets, TLC

VARIABLES
    config,          \* src/configs.py Config: the process-wide settings
    pc,              \* where the handler of the current /ask request stands
    question,        \* request.question of the current request
    context,         \* request.context of the current request
    faq_results,     \* results['faq'] of the search_all of this request
    manual_results,  \* results['manual'] of the search_all of this request
    search_results,  \* the fused list smart_search returned
    search_strategy, \* the strategy tag smart_search returned
    prompt,          \* the template handed to the text-generation call
    answer,          \* answer of the response under construction
    confidence,      \* confidence of the response under construction
    calls,           \* external calls issued for this request, in order
    elapsed,         \* time.time() - start_time, in external calls made
    response,        \* what the caller received for this request
    sent,            \* number of responses sent for this request
    health_status,   \* last result of UnifiedSearchEngine.health_check
    fn,              \* direct-call specifications: which function is applied
    fnIn,            \* direct-call specifications: its arguments
    fnOut            \* direct-call specifications: its result ("pending" before)

vars == << config, pc, question, context, faq_results,
           manual_results, search_results, search_strategy, prompt, answer,
           confidence, calls, elapsed, response, sent, health_status,
           fn, fnIn, fnOut >>

reqVars == << pc, question, context, faq_results, manual_results,
              search_results, search_strategy, prompt, answer, confidence,
              calls, elapsed, response, sent >>

fnVars == << fn, fnIn, fnOut >>

---------------------------------------------------------------------------
(* Bounds of the model *)

\* documents of one type in the collection, for a search called directly
MaxDocs == 5
\* documents of one type in the collection, for search_ranked called directly
MaxRankedDocs == 3
\* documents of one type in the collection, for a request to /ask
MaxAskDocs == 1
\* words of Vocabulary in a query given to the classifier directly
MaxQueryWords == 2
\* results in a list given to the confidence estimator directly
MaxConfResults == 4
\* largest max_total_results given to search_ranked directly
MaxTotalResults == 3

(* Program constants *)

\* a score of 1.0 on the grid of tenths
ScoreScale == 10
\* api.py: len(request.question) > 1000
MaxQuestionLength == 1000
\* smart_search: max_results_per_source of the two focus strategies
FocusPerSource == 4
\* smart_search: results['faq'][:3] / results['manual'][:3]
FocusPrimary == 3
\* smart_search: results['manual'][:2] / results['faq'][:2]
FocusSecondary == 2
\* smart_search: search_ranked(query, max_total_results=5)
BalancedTotal == 5
\* configs.py defaults
DefaultMaxSearchResults == 5
DefaultSimilarityThreshold == 7

\* Python None where a number is expected
None == -1

---------------------------------------------------------------------------
(* Sequences *)

Min(a, b) == IF a <= b THEN a ELSE b

Max(a, b) == IF a >= b THEN a ELSE b

\* Python s[:n] for n >= 0
Take(s, n) == SubSeq(s, 1, Min(n, Len(s)))

RECURSIVE SeqsUpTo(_, _)
\* all sequences over S of length at most n
SeqsUpTo(S, n) ==
    IF n = 0 THEN {<< >>}
    ELSE LET shorter == SeqsUpTo(S, n - 1)
         IN  shorter \cup {Append(s, x) : s \in shorter, x \in S}

RECURSIVE Concat(_)
\* the concatenation of a sequence of sequences
Concat(ss) == IF ss = << >> THEN << >> ELSE Head(ss) \o Concat(Tail(ss))

RECURSIVE SumSeq(_)
SumSeq(s) == IF s = << >> THEN 0 ELSE Head(s) + SumSeq(Tail(s))

RECURSIVE MaxSeq(_)
\* Python max() of a non-empty sequence
MaxSeq(s) == IF Len(s) = 1 THEN s[1] ELSE Max(Head(s), MaxSeq(Tail(s)))

---------------------------------------------------------------------------
(* Exact fractions, for the float arithmetic of the confidence estimator *)

RECURSIVE Gcd(_, _)
Gcd(a, b) == IF b = 0 THEN a ELSE Gcd(b, a % b)

Abs(a) == IF a < 0 THEN 0 - a ELSE a

\* the fraction n/d (d > 0) in lowest terms
Rat(n, d) ==
    LET g == Gcd(Abs(n), d)
    IN  [num |-> n \div g, den |-> d \div g]

RMul(a, b) == Rat(a.num * b.num, a.den * b.den)

RAdd(a, b) == Rat(a.num * b.den + b.num * a.den, a.den * b.den)

RLeq(a, b) == a.num * b.den <= b.num * a.den

RMin(a, b) == IF RLeq(a, b) THEN a ELSE b

RMax(a, b) == IF RLeq(b, a) THEN a ELSE b

\* a score of the grid as a fraction
ScoreRat(s) == Rat(s, ScoreScale)

---------------------------------------------------------------------------
(* Text *)

Whitespace == {" "}

RECURSIVE LStrip(_)
LStrip(t) ==
    IF t # << >> /\ Head(t) \in Whitespace THEN LStrip(Tail(t)) ELSE t

RECURSIVE RStrip(_)
RStrip(t) ==
    IF t # << >> /\ t[Len(t)] \in Whitespace
    THEN RStrip(SubSeq(t, 1, Len(t) - 1))
    ELSE t

\* Python str.strip()
Strip(t) == RStrip(LStrip(t))

\* Python str.lower(): only the Latin letters of the alphabet have a case
Lower(t) == [i \in 1..Len(t) |-> IF t[i] = "A" THEN "a" ELSE t[i]]

\* Python `kw in t` for strings
IsSubstring(kw, t) ==
    \E i \in 0..(Len(t) - Len(kw)) : \A j \in 1..Len(kw) : t[i + j] = kw[j]

\* 'ログイン', '申請', 'パスワード', 'できない', 'エラー',
\* 'アカウント', 'ユーザー', 'サインイン', 'トラブル', '問題'
faq_keywords ==
    << << "kRO", "kGU", "kI", "kN" >>,
       << "shin", "sei" >>,
       << "kPA", "kSU", "kWA", "kLONG", "kDO" >>,
       << "hDE", "hKI", "hNA", "hI" >>,
       << "kE", "kRA", "kLONG" >>,
       << "kA", "kKA", "kU", "kN", "kTO" >>,
       << "kYU", "kLONG", "kZA", "kLONG" >>,
       << "kSA", "kI", "kN", "kI", "kN" >>,
       << "kTO", "kRA", "kBU", "kRU" >>,
       << "mon", "dai" >> >>

\* '手順', '方法', '設定', '操作', '画面', 'ボタン',
\* 'メニュー', '機能', '使い方', 'システム'
manual_keywords ==
    << << "te", "jun" >>,
       << "kata", "hou" >>,
       << "setsu", "tei" >>,
       << "sou", "saku" >>,
       << "ga", "men" >>,
       << "kBO", "kTA", "kN" >>,
       << "kME", "kNI", "kyu", "kLONG" >>,
       << "ki", "nou" >>,
       << "tsuka", "hI", "kata" >>,
       << "kSHI", "kSU", "kTE", "kMU" >> >>

RECURSIVE keyword_matches(_, _)
\* sum(1 for keyword in keywords if keyword in query_lower)
keyword_matches(keywords, query_lower) ==
    IF keywords = << >> THEN 0
    ELSE (IF IsSubstring(Head(keywords), query_lower) THEN 1 ELSE 0)
         + keyword_matches(Tail(keywords), query_lower)

\* a comparison that gives ties to the FAQ side
strategy_of_scores_ge(faq_score, manual_score) ==
    IF faq_score >= manual_score THEN "faq_focus"
    ELSE IF manual_score > faq_score THEN "manual_focus"
    ELSE "balanced"

\* the comparison of the two match counts
strategy_of_scores(faq_score, manual_score) ==
    IF faq_score > manual_score THEN "faq_focus"
    ELSE IF manual_score > faq_score THEN "manual_focus"
    ELSE "balanced"

\* UnifiedSearchEngine._determine_search_strategy(query, context)
determine_search_strategy(query, ctx) ==
    LET query_lower  == Lower(query)
        faq_score    == keyword_matches(faq_keywords, query_lower)
        manual_score == keyword_matches(manual_keywords, query_lower)
    IN  strategy_of_scores(faq_score, manual_score)

---------------------------------------------------------------------------
(* The vector index and the embedder, as the adapters see them *)

\* distances the index reports, in tenths: -0.1 (an inner-product space),
\* 0.0, 0.3, 1.2
DistVals == {-1, 0, 3, 12}

\* the distances of n neighbours, nearest first
AscendingDistances(n) ==
    {d \in [1..n -> DistVals] : \A i \in 1..(n - 1) : d[i] <= d[i + 1]}

\* what one adapter call meets: the embedder works or raises, the index
\* raises or ranks the documents of the adapter's type (at most maxDocs)
SearchEnvs(maxDocs) ==
    {[embed |-> FALSE, index_ok |-> FALSE, distances |-> << >>],
     [embed |-> TRUE, index_ok |-> FALSE, distances |-> << >>]}
    \cup {[embed |-> TRUE, index_ok |-> TRUE, distances |-> d] :
             d \in UNION {AscendingDistances(n) : n \in 0..maxDocs}}

\* a SearchResult without the bounds on score
SearchResultValid_any(score) == TRUE

\* models.py SearchResult: score ge=0.0, le=1.0
SearchResultValid(score) == score >= 0 /\ score <= ScoreScale

\* similarity_score = max(0, 1 - distance)
similarity_score(distance) == Max(0, ScoreScale - distance)

RECURSIVE InsertByScore_unstable(_, _)
\* an insertion that puts r in front of the results of equal score
InsertByScore_unstable(sorted, r) ==
    IF sorted = << >> THEN << r >>
    ELSE IF Head(sorted).score > r.score
         THEN << Head(sorted) >> \o InsertByScore_unstable(Tail(sorted), r)
         ELSE << r >> \o sorted

RECURSIVE InsertByScore(_, _)
\* r placed after every element whose score is not lower than its own
InsertByScore(sorted, r) ==
    IF sorted = << >> THEN << r >>
    ELSE IF Head(sorted).score >= r.score
         THEN << Head(sorted) >> \o InsertByScore(Tail(sorted), r)
         ELSE << r >> \o sorted

RECURSIVE SortByScore(_)
\* list.sort(key=lambda x: x.score, reverse=True): stable
SortByScore(rs) ==
    IF rs = << >> THEN << >>
    ELSE InsertByScore(SortByScore(SubSeq(rs, 1, Len(rs) - 1)), rs[Len(rs)])

\* the SearchResult an adapter builds for the i-th neighbour of a response
MakeResult(type, i, distance) ==
    [type |-> type, doc |-> i, score |-> similarity_score(distance),
     original_distance |-> distance]

\* the loop without the test of similarity_score against min_score
KeptResults_unfiltered(type, distances, min_score, i) ==
    [j \in 1..(Len(distances) - i + 1) |->
        MakeResult(type, j + i - 1, distances[j + i - 1])]

RECURSIVE KeptResults(_, _, _, _)
\* the loop over zip(documents, metadatas, distances), from neighbour i on
KeptResults(type, distances, min_score, i) ==
    IF i > Len(distances) THEN << >>
    ELSE (IF similarity_score(distances[i]) >= min_score
          THEN << MakeResult(type, i, distances[i]) >>
          ELSE << >>)
         \o KeptResults(type, distances, min_score, i + 1)

\* FAQSearchEngine._process_search_results: raised is the ValidationError
\* of a SearchResult whose score is out of range
faq_process_search_results(distances, min_score) ==
    LET kept == KeptResults("faq", distances, min_score, 1)
    IN  IF \E i \in 1..Len(kept) : ~SearchResultValid(kept[i].score)
        THEN [raised |-> TRUE, results |-> << >>]
        ELSE [raised |-> FALSE, results |-> SortByScore(kept)]

\* ManualSearchEngine._process_search_results
manual_process_search_results(distances, min_score) ==
    LET kept == KeptResults("manual", distances, min_score, 1)
    IN  IF \E i \in 1..Len(kept) : ~SearchResultValid(kept[i].score)
        THEN [raised |-> TRUE, results |-> << >>]
        ELSE [raised |-> FALSE, results |-> SortByScore(kept)]

\* a default that always wins over the argument
OrDefault_always(x, default) == default

\* `x or default` of Python for a number or None
OrDefault(x, default) == IF x = None \/ x = 0 THEN default ELSE x

EncodeCall(engine) == [op |-> "encode", type |-> engine, n_results |-> 0]

QueryCall(engine, n) == [op |-> "query", type |-> engine, n_results |-> n]

GenerateCall == [op |-> "generate", type |-> "openai", n_results |-> 0]

\* search_faq without the guard of lines 88-90 on an empty query
search_faq_unguarded(query, max_results, min_score, cfg, env) ==
    LET mr == OrDefault(max_results, cfg.MAX_SEARCH_RESULTS)
        ms == OrDefault(min_score, cfg.SIMILARITY_THRESHOLD)
    IN  IF ~env.embed
        THEN [results |-> << >>, calls |-> << EncodeCall("faq") >>]
        ELSE IF ~env.index_ok
        THEN [results |-> << >>,
              calls |-> << EncodeCall("faq"), QueryCall("faq", mr) >>]
        ELSE [results |->
                  faq_process_search_results(Take(env.distances, mr), ms).results,
              calls |-> << EncodeCall("faq"), QueryCall("faq", mr) >>]

\* FAQSearchEngine.search_faq: the results and the external calls it made
search_faq(query, max_results, min_score, cfg, env) ==
    IF Strip(query) = << >> THEN [results |-> << >>, calls |-> << >>]
    ELSE
      LET mr == OrDefault(max_results, cfg.MAX_SEARCH_RESULTS)
          ms == OrDefault(min_score, cfg.SIMILARITY_THRESHOLD)
      IN  IF ~env.embed
          THEN [results |-> << >>, calls |-> << EncodeCall("faq") >>]
          ELSE IF ~env.index_ok
          THEN [results |-> << >>,
                calls |-> << EncodeCall("faq"), QueryCall("faq", mr) >>]
          ELSE [results |->
                    faq_process_search_results(Take(env.distances, mr), ms).results,
                calls |-> << EncodeCall("faq"), QueryCall("faq", mr) >>]

\* ManualSearchEngine.search_manual
search_manual(query, max_results, min_score, cfg, env) ==
    IF Strip(query) = << >> THEN [results |-> << >>, calls |-> << >>]
    ELSE
      LET mr == OrDefault(max_results, cfg.MAX_SEARCH_RESULTS)
          ms == OrDefault(min_score, cfg.SIMILARITY_THRESHOLD)
      IN  IF ~env.embed
          THEN [results |-> << >>, calls |-> << EncodeCall("manual") >>]
          ELSE IF ~env.index_ok
          THEN [results |-> << >>,
                calls |-> << EncodeCall("manual"), QueryCall("manual", mr) >>]
          ELSE [results |->
                    manual_process_search_results(Take(env.distances, mr), ms).results,
                calls |-> << EncodeCall("manual"), QueryCall("manual", mr) >>]

---------------------------------------------------------------------------
(* The unified search engine *)

\* search_all with one failure boundary for the two adapters, which raise
\* instead of returning []: a failure on either side empties both entries
search_all_one_boundary(query, max_results_per_source, min_score, cfg, envF, envM) ==
    LET f == search_faq(query, max_results_per_source, min_score, cfg, envF)
        m == search_manual(query, max_results_per_source, min_score, cfg, envM)
        failed(env) == ~env.embed \/ ~env.index_ok
    IN  IF Strip(query) # << >> /\ (failed(envF) \/ failed(envM))
        THEN [faq |-> << >>, manual |-> << >>, calls |-> f.calls \o m.calls]
        ELSE [faq |-> f.results, manual |-> m.results,
              calls |-> f.calls \o m.calls]

\* search_all that searches the manuals first
search_all_manual_first(query, max_results_per_source, min_score, cfg, envF, envM) ==
    LET f == search_faq(query, max_results_per_source, min_score, cfg, envF)
        m == search_manual(query, max_results_per_source, min_score, cfg, envM)
    IN  [faq |-> f.results, manual |-> m.results, calls |-> m.calls \o f.calls]

\* UnifiedSearchEngine.search_all
search_all(query, max_results_per_source, min_score, cfg, envF, envM) ==
    LET f == search_faq(query, max_results_per_source, min_score, cfg, envF)
        m == search_manual(query, max_results_per_source, min_score, cfg, envM)
    IN  [faq |-> f.results, manual |-> m.results, calls |-> f.calls \o m.calls]

\* search_ranked without the sort of line 145
search_ranked_unsorted(query, max_total_results, min_score, cfg, envF, envM) ==
    LET found == search_all(query, max_total_results, min_score, cfg, envF, envM)
    IN  [results |-> Take(found.faq \o found.manual, max_total_results),
         faq |-> found.faq, manual |-> found.manual, calls |-> found.calls]

\* UnifiedSearchEngine.search_ranked
search_ranked(query, max_total_results, min_score, cfg, envF, envM) ==
    LET found == search_all(query, max_total_results, min_score, cfg, envF, envM)
        all_results == SortByScore(found.faq \o found.manual)
    IN  [results |-> Take(all_results, max_total_results),
         faq |-> found.faq, manual |-> found.manual, calls |-> found.calls]

\* a merge that ranks the two lists together
faq_focus_merge_by_score(found) ==
    Take(SortByScore(Take(found.faq, FocusPrimary)
                     \o Take(found.manual, FocusSecondary)), BalancedTotal)

\* final_results of the faq_focus branch
faq_focus_merge(found) ==
    Take(found.faq, FocusPrimary) \o Take(found.manual, FocusSecondary)

\* final_results of the manual_focus branch
manual_focus_merge(found) ==
    Take(found.manual, FocusPrimary) \o Take(found.faq, FocusSecondary)

\* UnifiedSearchEngine.smart_search from the line that follows
\* smart_search whose except clause returns the tag of the classifier
smart_search_from_keeps_tag(strategy, query, cfg, envF, envM, raises) ==
    IF raises
    THEN [results |-> << >>, strategy |-> strategy,
          faq |-> << >>, manual |-> << >>, calls |-> << >>]
    ELSE IF strategy = "faq_focus"
    THEN LET found == search_all(query, FocusPerSource, None, cfg, envF, envM)
         IN  [results |-> faq_focus_merge(found), strategy |-> strategy,
              faq |-> found.faq, manual |-> found.manual, calls |-> found.calls]
    ELSE IF strategy = "manual_focus"
    THEN LET found == search_all(query, FocusPerSource, None, cfg, envF, envM)
         IN  [results |-> manual_focus_merge(found), strategy |-> strategy,
              faq |-> found.faq, manual |-> found.manual, calls |-> found.calls]
    ELSE LET ranked == search_ranked(query, BalancedTotal, None, cfg, envF, envM)
         IN  [results |-> ranked.results, strategy |-> strategy,
              faq |-> ranked.faq, manual |-> ranked.manual, calls |-> ranked.calls]

\* smart_search whose except clause returns what a balanced search finds,
\* under the tag error
smart_search_from_error_with_results(strategy, query, cfg, envF, envM, raises) ==
    LET ranked == search_ranked(query, BalancedTotal, None, cfg, envF, envM)
    IN  [results |-> ranked.results,
         strategy |-> IF raises THEN "error" ELSE "balanced",
         faq |-> ranked.faq, manual |-> ranked.manual, calls |-> ranked.calls]

\* _determine_search_strategy on; raises is an exception inside its try
\* block, which the except clause turns into ([], "error")
smart_search_from(strategy, query, cfg, envF, envM, raises) ==
    IF raises
    THEN [results |-> << >>, strategy |-> "error",
          faq |-> << >>, manual |-> << >>, calls |-> << >>]
    ELSE IF strategy = "faq_focus"
    THEN LET found == search_all(query, FocusPerSource, None, cfg, envF, envM)
         IN  [results |-> faq_focus_merge(found), strategy |-> strategy,
              faq |-> found.faq, manual |-> found.manual, calls |-> found.calls]
    ELSE IF strategy = "manual_focus"
    THEN LET found == search_all(query, FocusPerSource, None, cfg, envF, envM)
         IN  [results |-> manual_focus_merge(found), strategy |-> strategy,
              faq |-> found.faq, manual |-> found.manual, calls |-> found.calls]
    ELSE LET ranked == search_ranked(query, BalancedTotal, None, cfg, envF, envM)
         IN  [results |-> ranked.results, strategy |-> strategy,
              faq |-> ranked.faq, manual |-> ranked.manual, calls |-> ranked.calls]

\* UnifiedSearchEngine.smart_search
smart_search(query, ctx, cfg, envF, envM, raises) ==
    smart_search_from(determine_search_strategy(query, ctx),
                      query, cfg, envF, envM, raises)

---------------------------------------------------------------------------
(* The agent *)

\* a dictionary without the "error" entry
strategy_factor_no_error(strategy) ==
    CASE strategy = "faq_focus"    -> Rat(9, 10)
      [] strategy = "manual_focus" -> Rat(8, 10)
      [] strategy = "balanced"     -> Rat(85, 100)
      [] OTHER                     -> Rat(7, 10)

\* the strategy_factor dictionary and its .get default
strategy_factor(strategy) ==
    CASE strategy = "faq_focus"    -> Rat(9, 10)
      [] strategy = "manual_focus" -> Rat(8, 10)
      [] strategy = "balanced"     -> Rat(85, 100)
      [] strategy = "error"        -> Rat(3, 10)
      [] OTHER                     -> Rat(7, 10)

\* _calculate_confidence whose count factor is not capped at 1.0
calculate_confidence_uncapped(results, strategy) ==
    IF results = << >> THEN Rat(0, 1)
    ELSE
      LET scores    == [i \in 1..Len(results) |-> results[i].score]
          max_score == ScoreRat(MaxSeq(scores))
          avg_score == Rat(SumSeq(scores), ScoreScale * Len(results))
          result_count_factor == Rat(Len(results), 3)
          value == RMul(RMul(RAdd(RMul(max_score, Rat(6, 10)),
                                  RMul(avg_score, Rat(4, 10))),
                             result_count_factor),
                        strategy_factor(strategy))
      IN  RMax(Rat(0, 1), RMin(Rat(1, 1), value))

\* SupportAgent._calculate_confidence
calculate_confidence(results, strategy) ==
    IF results = << >> THEN Rat(0, 1)
    ELSE
      LET scores    == [i \in 1..Len(results) |-> results[i].score]
          max_score == ScoreRat(MaxSeq(scores))
          avg_score == Rat(SumSeq(scores), ScoreScale * Len(results))
          result_count_factor == RMin(Rat(Len(results), 3), Rat(1, 1))
          value == RMul(RMul(RAdd(RMul(max_score, Rat(6, 10)),
                                  RMul(avg_score, Rat(4, 10))),
                             result_count_factor),
                        strategy_factor(strategy))
      IN  RMax(Rat(0, 1), RMin(Rat(1, 1), value))

\* the results of one metadata type, in order
OfType(results, type) == SelectSeq(results, LAMBDA r : r.type = type)

\* the prompt _generate_answer_with_sources builds
select_prompt(results) ==
    LET faq    == OfType(results, "faq")
        manual == OfType(results, "manual")
    IN  IF faq # << >> /\ manual # << >> THEN "multi_source"
        ELSE IF faq # << >> THEN "faq"
        ELSE IF manual # << >> THEN "manual"
        ELSE "no_results"

\* _generate_answer_with_sources choosing the template from the strategy tag
generate_answer_with_sources_by_strategy(results, strategy, genOk) ==
    LET by_tag == CASE strategy = "faq_focus"    -> "faq"
                    [] strategy = "manual_focus" -> "manual"
                    [] OTHER                     -> "multi_source"
    IN  IF genOk
        THEN [prompt |-> by_tag, answer |-> "generated",
              confidence |-> calculate_confidence(results, strategy)]
        ELSE [prompt |-> by_tag, answer |-> "generation_error",
              confidence |-> Rat(0, 1)]

\* SupportAgent._generate_answer_with_sources; genOk: the completion call
\* returned a text
generate_answer_with_sources(results, strategy, genOk) ==
    IF genOk
    THEN [prompt |-> select_prompt(results), answer |-> "generated",
          confidence |-> calculate_confidence(results, strategy)]
    ELSE [prompt |-> select_prompt(results), answer |-> "generation_error",
          confidence |-> Rat(0, 1)]

\* a no-results answer whose confidence comes from the general formula
generate_no_results_answer_formula(genOk) ==
    IF genOk
    THEN [prompt |-> "no_results", answer |-> "generated",
          confidence |-> calculate_confidence(<< >>, "balanced")]
    ELSE [prompt |-> "no_results", answer |-> "no_results_prompt",
          confidence |-> Rat(0, 1)]

\* SupportAgent._generate_no_results_answer
generate_no_results_answer(genOk) ==
    IF genOk
    THEN [prompt |-> "no_results", answer |-> "generated",
          confidence |-> Rat(1, 10)]
    ELSE [prompt |-> "no_results", answer |-> "no_results_prompt",
          confidence |-> Rat(0, 1)]

\* models.py AnswerResponse: confidence ge=0.0, le=1.0, sources a list of
\* SearchResult
AnswerResponseValid(conf, sources) ==
    /\ RLeq(Rat(0, 1), conf) /\ RLeq(conf, Rat(1, 1))
    /\ \A i \in 1..Len(sources) : SearchResultValid(sources[i].score)

NoResponse ==
    [status |-> 0, answer |-> "", confidence |-> Rat(0, 1),
     sources |-> << >>, processing_time |-> 0]

\* an HTTPException of the handler, or the 422 of the request schema
Rejection(code) ==
    [status |-> code, answer |-> "", confidence |-> Rat(0, 1),
     sources |-> << >>, processing_time |-> 0]

\* the AnswerResponse of the except clause of process_question
SystemErrorResponse(time) ==
    [status |-> 200, answer |-> "system_error", confidence |-> Rat(0, 1),
     sources |-> << >>, processing_time |-> time]

---------------------------------------------------------------------------
(* Questions sent to /ask *)

login == << "kRO", "kGU", "kI", "kN" >>

tejun == << "te", "jun" >>

\* t followed by the letter x up to n characters
PadTo(t, n) == t \o [i \in 1..(n - Len(t)) |-> "x"]

\* request.question: empty, blank, padded, a FAQ word, a Manual word, and
\* the two lengths around the ceiling of ask_question
AskQuestions ==
    {<< >>, << " " >>, << " ", "x", " " >>, login, tejun,
     PadTo(login, MaxQuestionLength), PadTo(tejun, MaxQuestionLength + 1)}

\* request.context after `or {}`: the keys of the dictionary
AskContexts == {{}}

---------------------------------------------------------------------------
(* POST /ask: ask_question and SupportAgent.process_question.  The handler
   is a coroutine that never suspends (the search and the completion call
   are blocking calls), so one request runs to its end before the event
   loop starts another handler. *)

\* health_status before any probe has run
NoHealth == [faq_engine |-> FALSE, manual_engine |-> FALSE, overall |-> FALSE]

\* a request arrives
ReceiveAsk ==
    /\ pc = "idle"
    /\ \E q \in AskQuestions, c \in AskContexts :
          /\ question' = q
          /\ context' = c
    /\ pc' = "received"
    /\ faq_results' = << >>
    /\ manual_results' = << >>
    /\ search_results' = << >>
    /\ search_strategy' = "none"
    /\ prompt' = "none"
    /\ answer' = ""
    /\ confidence' = Rat(0, 1)
    /\ calls' = << >>
    /\ elapsed' = 0
    /\ response' = NoResponse
    /\ sent' = 0
    /\ health_status' = NoHealth
    /\ UNCHANGED << config, fnVars >>

\* validation_error with the ceiling one character too low
validation_error_strict(q) ==
    IF Len(q) < 1 THEN 422
    ELSE IF Strip(q) = << >> THEN 400
    ELSE IF Len(q) >= MaxQuestionLength THEN 400
    ELSE 0

\* the verdict on request.question: 0 when it passes
validation_error(q) ==
    IF Len(q) < 1 THEN 422
    ELSE IF Strip(q) = << >> THEN 400
    ELSE IF Len(q) > MaxQuestionLength THEN 400
    ELSE 0

\* QuestionRequest(min_length=1) and the two checks of ask_question
Validate ==
    /\ pc = "received"
    /\ LET code == validation_error(question)
       IN  IF code # 0
           THEN /\ response' = Rejection(code)
                /\ sent' = sent + 1
                /\ pc' = "done"
           ELSE /\ pc' = "validated"
                /\ UNCHANGED << response, sent >>
    /\ UNCHANGED << config, question, context, faq_results, manual_results,
                    search_results, search_strategy, prompt, answer,
                    confidence, calls, elapsed, health_status, fnVars >>

\* SupportAgent._search_knowledge_base
Search ==
    /\ pc = "validated"
    /\ \E strategy \in {determine_search_strategy(question, context)} :
           \E envF \in SearchEnvs(MaxAskDocs), envM \in SearchEnvs(MaxAskDocs),
              raises \in BOOLEAN :
              LET found == smart_search_from(strategy, question, config,
                                             envF, envM, raises)
              IN  /\ search_results' = found.results
                  /\ search_strategy' = found.strategy
                  /\ faq_results' = found.faq
                  /\ manual_results' = found.manual
                  /\ calls' = calls \o found.calls
                  /\ elapsed' = elapsed + Len(found.calls)
    /\ pc' = "searched"
    /\ UNCHANGED << config, question, context, prompt, answer, confidence,
                    response, sent, health_status, fnVars >>

\* Generate without the except clauses: a failed completion call ends the
\* handler with no response
Generate_propagates ==
    /\ pc = "searched"
    /\ \E genOk \in BOOLEAN :
          LET out == IF search_results # << >>
                     THEN generate_answer_with_sources(search_results,
                                                       search_strategy, genOk)
                     ELSE generate_no_results_answer(genOk)
          IN  /\ prompt' = out.prompt
              /\ answer' = out.answer
              /\ confidence' = out.confidence
              /\ pc' = IF genOk THEN "answered" ELSE "done"
    /\ calls' = Append(calls, GenerateCall)
    /\ elapsed' = elapsed + 1
    /\ UNCHANGED << config, question, context, faq_results, manual_results,
                    search_results, search_strategy, response, sent,
                    health_status, fnVars >>

\* step 2 of process_question: the answer and its confidence
Generate ==
    /\ pc = "searched"
    /\ \E genOk \in BOOLEAN :
          LET out == IF search_results # << >>
                     THEN generate_answer_with_sources(search_results,
                                                       search_strategy, genOk)
                     ELSE generate_no_results_answer(genOk)
          IN  /\ prompt' = out.prompt
              /\ answer' = out.answer
              /\ confidence' = out.confidence
    /\ calls' = Append(calls, GenerateCall)
    /\ elapsed' = elapsed + 1
    /\ pc' = "answered"
    /\ UNCHANGED << config, question, context, faq_results, manual_results,
                    search_results, search_strategy, response, sent,
                    health_status, fnVars >>

\* step 3 of process_question and the return of ask_question
Return ==
    /\ pc = "answered"
    /\ response' =
          IF AnswerResponseValid(confidence, search_results)
          THEN [status |-> 200, answer |-> answer, confidence |-> confidence,
                sources |-> search_results, processing_time |-> elapsed]
          ELSE SystemErrorResponse(elapsed)
    /\ sent' = sent + 1
    /\ pc' = "done"
    /\ UNCHANGED << config, question, context, faq_results, manual_results,
                    search_results, search_strategy, prompt, answer,
                    confidence, calls, elapsed, health_status, fnVars >>

---------------------------------------------------------------------------
(* Health *)

\* what a health probe meets: collection.count() works or raises, the
\* collection holds faq and manual documents, and the two adapters'
\* queries meet envF and envM
HealthEnvs ==
    {[count_ok |-> c, faq |-> nf, manual |-> nm, envF |-> eF, envM |-> eM] :
        c \in BOOLEAN, nf \in 0..MaxAskDocs, nm \in 0..MaxAskDocs,
        eF \in SearchEnvs(0), eM \in SearchEnvs(0)}

\* FAQSearchEngine.health_check
faq_health_check(cfg, env) ==
    IF ~env.count_ok THEN FALSE
    ELSE IF env.faq + env.manual = 0 THEN FALSE
    ELSE TRUE

\* ManualSearchEngine._count_manual_documents
count_manual_documents(env) ==
    IF env.envM.embed /\ env.envM.index_ok THEN env.manual ELSE 0

\* ManualSearchEngine.health_check
manual_health_check(cfg, env) ==
    IF count_manual_documents(env) = 0 THEN FALSE ELSE TRUE

\* a probe that wants both adapters healthy
health_check_both(cfg, env) ==
    LET faq_engine    == faq_health_check(cfg, env)
        manual_engine == manual_health_check(cfg, env)
    IN  [faq_engine |-> faq_engine, manual_engine |-> manual_engine,
         overall |-> faq_engine /\ manual_engine]

\* UnifiedSearchEngine.health_check
health_check(cfg, env) ==
    LET faq_engine    == faq_health_check(cfg, env)
        manual_engine == manual_health_check(cfg, env)
    IN  [faq_engine |-> faq_engine, manual_engine |-> manual_engine,
         overall |-> faq_engine \/ manual_engine]

\* GET /health, between two requests
HealthCheck ==
    /\ pc = "idle"
    /\ \E env \in HealthEnvs : health_status' = health_check(config, env)
    /\ UNCHANGED << config, reqVars, fnVars >>

---------------------------------------------------------------------------
(* POST /config *)

ConfigUpdates ==
    [max_search_results : {None}, similarity_threshold : {None, 0, 7},
     openai_model : {"None"}]

\* update_config
UpdateConfig ==
    /\ pc = "idle"
    /\ \E u \in ConfigUpdates :
          config' =
             [MAX_SEARCH_RESULTS |->
                 IF u.max_search_results # None
                 THEN u.max_search_results ELSE config.MAX_SEARCH_RESULTS,
              SIMILARITY_THRESHOLD |->
                 IF u.similarity_threshold # None
                 THEN u.similarity_threshold ELSE config.SIMILARITY_THRESHOLD,
              OPENAI_MODEL |->
                 IF u.openai_model # "None"
                 THEN u.openai_model ELSE config.OPENAI_MODEL]
    /\ UNCHANGED << reqVars, health_status, fnVars >>

---------------------------------------------------------------------------
(* The service *)

DefaultConfig ==
    [MAX_SEARCH_RESULTS |-> DefaultMaxSearchResults,
     SIMILARITY_THRESHOLD |-> DefaultSimilarityThreshold,
     OPENAI_MODEL |-> "gpt-3.5-turbo"]

IdleRequest ==
    /\ pc = "idle"
    /\ question = << >>
    /\ context = {}
    /\ faq_results = << >>
    /\ manual_results = << >>
    /\ search_results = << >>
    /\ search_strategy = "none"
    /\ prompt = "none"
    /\ answer = ""
    /\ confidence = Rat(0, 1)
    /\ calls = << >>
    /\ elapsed = 0
    /\ response = NoResponse
    /\ sent = 0

\* the handler has returned and the event loop is free again
Finish ==
    /\ pc = "done"
    /\ pc' = "idle"
    /\ question' = << >>
    /\ context' = {}
    /\ faq_results' = << >>
    /\ manual_results' = << >>
    /\ search_results' = << >>
    /\ search_strategy' = "none"
    /\ prompt' = "none"
    /\ answer' = ""
    /\ confidence' = Rat(0, 1)
    /\ calls' = << >>
    /\ elapsed' = 0
    /\ response' = NoResponse
    /\ sent' = 0
    /\ UNCHANGED << config, health_status, fnVars >>

NoDirectCall ==
    /\ fn = "none"
    /\ fnIn = [none |-> TRUE]
    /\ fnOut = [done |-> FALSE]

Init ==
    /\ config = DefaultConfig
    /\ IdleRequest
    /\ health_status = NoHealth
    /\ NoDirectCall

Next ==
    \/ ReceiveAsk
    \/ Validate
    \/ Search
    \/ Generate
    \/ Return
    \/ Finish
    \/ HealthCheck
    \/ UpdateConfig

Spec == Init /\ [][Next]_vars

---------------------------------------------------------------------------
(* The functions of the core called directly, one call after another: the
   arguments of a call are fnIn, its result is fnOut.value *)

IdleService ==
    /\ config = DefaultConfig
    /\ IdleRequest
    /\ health_status = NoHealth

\* configurations a direct call may run under
Configs ==
    {[DefaultConfig EXCEPT !.SIMILARITY_THRESHOLD = t] :
        t \in {0, DefaultSimilarityThreshold}}

Contexts == {{}, {"department"}}

(* _determine_search_strategy *)

\* 'ログイ', 'ン申請', 'ログイン', '手順手順', 'A': a keyword may lie across
\* two words, and may occur twice
Vocabulary ==
    {<< "kRO", "kGU", "kI" >>, << "kN", "shin", "sei" >>, login,
     tejun \o tejun, << "A" >>}

Queries == {Concat(ws) : ws \in SeqsUpTo(Vocabulary, MaxQueryWords)}

ClassifyInputs == [query : Queries, context : Contexts]

InitClassify ==
    /\ IdleService
    /\ fn = "determine_search_strategy"
    /\ fnIn \in ClassifyInputs
    /\ fnOut = [done |-> FALSE]

\* one more call, whatever was called before
CallClassify ==
    /\ fn = "determine_search_strategy"
    /\ \E in \in ClassifyInputs :
          /\ fnIn' = in
          /\ fnOut' = [done |-> TRUE,
                       value |-> determine_search_strategy(in.query, in.context)]
    /\ UNCHANGED << config, reqVars, health_status, fn >>

SpecClassify == InitClassify /\ [][CallClassify \/ UpdateConfig]_vars

(* _calculate_confidence *)

\* scores of the results given to the estimator: 0.0, 0.5, 0.7, 1.0
ConfScores == {0, 5, 7, 10}

ConfStrategies == {"faq_focus", "manual_focus", "balanced", "error", "hybrid"}

\* result lists with the given scores, in order
ResultsOfScores(scores) ==
    [i \in 1..Len(scores) |->
        [type |-> "faq", doc |-> i, score |-> scores[i],
         original_distance |-> ScoreScale - scores[i]]]

ConfInputs ==
    [results : {ResultsOfScores(sc) : sc \in SeqsUpTo(ConfScores, MaxConfResults)},
     strategy : ConfStrategies]

InitConfidence ==
    /\ IdleService
    /\ fn = "calculate_confidence"
    /\ fnIn \in ConfInputs
    /\ fnOut = [done |-> FALSE]

CallConfidence ==
    /\ fn = "calculate_confidence"
    /\ ~fnOut.done
    /\ fnOut' = [done |-> TRUE,
                 value |-> calculate_confidence(fnIn.results, fnIn.strategy)]
    /\ UNCHANGED << config, reqVars, health_status, fn, fnIn >>

SpecConfidence == InitConfidence /\ [][CallConfidence]_vars

(* smart_search *)

SmartQueries == {login, tejun, << "x" >>}

SmartInputs == [query : SmartQueries, context : {{}}, cfg : Configs]

InitSmart ==
    /\ IdleService
    /\ fn = "smart_search"
    /\ fnIn \in SmartInputs
    /\ fnOut = [done |-> FALSE]

CallSmartSearch ==
    /\ fn = "smart_search"
    /\ ~fnOut.done
    /\ \E envF \in SearchEnvs(MaxDocs), envM \in SearchEnvs(MaxDocs),
          raises \in BOOLEAN :
          fnOut' = [done |-> TRUE,
                    value |-> smart_search(fnIn.query, fnIn.context, fnIn.cfg,
                                           envF, envM, raises)]
    /\ UNCHANGED << config, reqVars, health_status, fn, fnIn >>

SpecSmart == InitSmart /\ [][CallSmartSearch]_vars

(* search_ranked *)

RankedInputs ==
    [query : {login, << " " >>}, max_total_results : 0..MaxTotalResults,
     min_score : {None, DefaultSimilarityThreshold}, cfg : Configs]

InitRanked ==
    /\ IdleService
    /\ fn = "search_ranked"
    /\ fnIn \in RankedInputs
    /\ fnOut = [done |-> FALSE]

CallSearchRanked ==
    /\ fn = "search_ranked"
    /\ ~fnOut.done
    /\ \E envF \in SearchEnvs(MaxRankedDocs), envM \in SearchEnvs(MaxRankedDocs) :
          fnOut' = [done |-> TRUE,
                    value |-> search_ranked(fnIn.query, fnIn.max_total_results,
                                            fnIn.min_score, fnIn.cfg, envF, envM)]
    /\ UNCHANGED << config, reqVars, health_status, fn, fnIn >>

SpecRanked == InitRanked /\ [][CallSearchRanked]_vars

(* search_faq and search_manual *)

AdapterInputs ==
    [query : {login, << " " >>}, max_results : {None, 0, 2},
     min_score : {None, 0, DefaultSimilarityThreshold}, cfg : Configs]

InitAdapter ==
    /\ IdleService
    /\ fn \in {"search_faq", "search_manual"}
    /\ fnIn \in AdapterInputs
    /\ fnOut = [done |-> FALSE]

CallSearchFaq ==
    /\ fn = "search_faq"
    /\ ~fnOut.done
    /\ \E env \in SearchEnvs(MaxDocs) :
          fnOut' = [done |-> TRUE,
                    value |-> search_faq(fnIn.query, fnIn.max_results,
                                         fnIn.min_score, fnIn.cfg, env)]
    /\ UNCHANGED << config, reqVars, health_status, fn, fnIn >>

CallSearchManual ==
    /\ fn = "search_manual"
    /\ ~fnOut.done
    /\ \E env \in SearchEnvs(MaxDocs) :
          fnOut' = [done |-> TRUE,
                    value |-> search_manual(fnIn.query, fnIn.max_results,
                                            fnIn.min_score, fnIn.cfg, env)]
    /\ UNCHANGED << config, reqVars, health_status, fn, fnIn >>

SpecAdapter == InitAdapter /\ [][CallSearchFaq \/ CallSearchManual]_vars

---------------------------------------------------------------------------
(* Properties *)

\* the handler runs every step it has reached: the event loop does not drop
\* a running coroutine, and the index, the embedder and the completion
\* service answer or raise
FairSpec ==
    /\ Spec
    /\ WF_vars(Validate)
    /\ WF_vars(Search)
    /\ WF_vars(Generate)
    /\ WF_vars(Return)

\* a question /ask must refuse: empty, all whitespace, or over 1000 characters
Rejectable(q) ==
    \/ \A i \in 1..Len(q) : q[i] \in Whitespace
    \/ Len(q) > 1000

ClientError == {400, 422}

\* an AnswerResponse with every field in range
WellFormed(r) ==
    /\ r.status = 200
    /\ r.answer # ""
    /\ r.confidence.num >= 0
    /\ r.confidence.num <= r.confidence.den
    /\ \A i \in 1..Len(r.sources) :
          r.sources[i].score >= 0 /\ r.sources[i].score <= 10
    /\ r.processing_time >= 0

C1_OneResponse ==
    /\ sent <= 1
    /\ pc \in {"validated", "searched", "answered"} => sent = 0
    /\ (pc = "done" /\ ~Rejectable(question)) =>
          sent = 1 /\ WellFormed(response)

\* C1: a question that passed validation leaves SEARCHED and ANSWERED and
\* ends with exactly one well-formed AnswerResponse, whatever fails on the
\* way (adapters, fusion, text generation); no request ends without one.
C1_AlwaysAnswered ==
    /\ []C1_OneResponse
    /\ (pc \in {"validated", "searched", "answered"}) ~> (pc = "done")

\* a response after the fusion failed and the completion call failed too
C1_Witness ==
    /\ pc = "done"
    /\ search_strategy = "error"
    /\ response.answer = "no_results_prompt"
    /\ WellFormed(response)

\* C2: a question that is empty, all whitespace or longer than 1000
\* characters gets a client error and no adapter or generation call is ever
\* made for it; any other question of /ask is never refused.
C2_RejectedBeforeRetrieval ==
    /\ Rejectable(question) =>
          /\ calls = << >>
          /\ pc \in {"idle", "received", "done"}
          /\ pc = "done" => response.status \in ClientError
    /\ ~Rejectable(question) => response.status \notin ClientError

\* a question of 1001 characters was refused
C2_Witness ==
    /\ pc = "done"
    /\ Len(question) = 1001
    /\ response.status = 400
    /\ calls = << >>

(* smart_search *)

\* the first n elements of s, written without Take
FirstN(s, n) == [i \in 1..(IF Len(s) < n THEN Len(s) ELSE n) |-> s[i]]

QueryCalls(cs) == {i \in 1..Len(cs) : cs[i].op = "query"}

\* a search_all that asked each adapter for n results and got faq and manual
RequestedPerSource(v, n) ==
    /\ \A i \in QueryCalls(v.calls) : v.calls[i].n_results = n
    /\ Len(v.faq) <= n
    /\ Len(v.manual) <= n

CountOfType(rs, type) == Cardinality({i \in 1..Len(rs) : rs[i].type = type})

\* C3: under faq_focus the final list is the first 3 FAQ results then the
\* first 2 Manual results of a search_all that asked for 4 per source, FAQ
\* first whatever the scores; under manual_focus the first 3 Manual then the
\* first 2 FAQ; so at most 5 items, 3 of the focused source, 2 of the other.
C3_FocusMerge ==
    (fn = "smart_search" /\ fnOut.done) =>
       LET v == fnOut.value
       IN  /\ v.strategy = "faq_focus" =>
                /\ RequestedPerSource(v, 4)
                /\ v.results = FirstN(v.faq, 3) \o FirstN(v.manual, 2)
                /\ CountOfType(v.results, "faq") <= 3
                /\ CountOfType(v.results, "manual") <= 2
           /\ v.strategy = "manual_focus" =>
                /\ RequestedPerSource(v, 4)
                /\ v.results = FirstN(v.manual, 3) \o FirstN(v.faq, 2)
                /\ CountOfType(v.results, "manual") <= 3
                /\ CountOfType(v.results, "faq") <= 2
           /\ v.strategy \in {"faq_focus", "manual_focus"} =>
                Len(v.results) <= 5

\* faq_focus with 4 FAQ and 3 or more Manual results found, where a Manual
\* result in the final list outscores a FAQ result placed before it
C3_Witness ==
    /\ fn = "smart_search"
    /\ fnOut.done
    /\ fnOut.value.strategy = "faq_focus"
    /\ Len(fnOut.value.faq) = 4
    /\ Len(fnOut.value.manual) >= 3
    /\ Len(fnOut.value.results) = 5
    /\ fnOut.value.results[4].score > fnOut.value.results[3].score

\* manual_focus with both lists cut
C3_WitnessManual ==
    /\ fn = "smart_search"
    /\ fnOut.done
    /\ fnOut.value.strategy = "manual_focus"
    /\ Len(fnOut.value.manual) = 4
    /\ Len(fnOut.value.faq) >= 3
    /\ Len(fnOut.value.results) = 5

\* C4: under balanced the final list is the top 5 by score over both
\* adapters' results: it is made of those results, has min(5, total) items,
\* and no result left out scores strictly higher than one that is in.
C4_BalancedTop5 ==
    (fn = "smart_search" /\ fnOut.done /\ fnOut.value.strategy = "balanced") =>
       LET v     == fnOut.value
           pool  == v.faq \o v.manual
           total == Len(pool)
           In(r)   == \E i \in 1..Len(v.results) : v.results[i] = r
       IN  /\ Len(v.results) = (IF total < 5 THEN total ELSE 5)
           /\ \A i \in 1..Len(v.results) :
                 \E k \in 1..total : pool[k] = v.results[i]
           /\ \A i, j \in 1..Len(v.results) :
                 i # j => v.results[i] # v.results[j]
           /\ \A k \in 1..total :
                 ~In(pool[k]) =>
                    \A i \in 1..Len(v.results) :
                       pool[k].score <= v.results[i].score

\* balanced with more than 5 results found, and a Manual result kept while a
\* FAQ result of lower score is left out
C4_Witness ==
    /\ fn = "smart_search"
    /\ fnOut.done
    /\ fnOut.value.strategy = "balanced"
    /\ Len(fnOut.value.faq) + Len(fnOut.value.manual) > 5
    /\ \E i \in 1..Len(fnOut.value.results) :
          /\ fnOut.value.results[i].type = "manual"
          /\ \E k \in 1..Len(fnOut.value.faq) :
                /\ fnOut.value.faq[k].score < fnOut.value.results[i].score
                /\ \A j \in 1..Len(fnOut.value.results) :
                      fnOut.value.results[j] # fnOut.value.faq[k]

(* search_ranked *)

\* position of result r in list rs (0 when absent)
PositionIn(rs, r) ==
    IF \E i \in 1..Len(rs) : rs[i] = r
    THEN CHOOSE i \in 1..Len(rs) : rs[i] = r
    ELSE 0

\* C5: search_ranked returns a list in non-increasing order of score, of at
\* most max_total_results items, where among equal scores every FAQ result
\* comes before every Manual result and results of one source keep the
\* order their adapter gave them.
C5_RankedOrder ==
    (fn = "search_ranked" /\ fnOut.done) =>
       LET v  == fnOut.value
           rs == v.results
       IN  /\ Len(rs) <= fnIn.max_total_results
           /\ \A i \in 1..(Len(rs) - 1) : rs[i].score >= rs[i + 1].score
           /\ \A i, j \in 1..Len(rs) :
                 (i < j /\ rs[i].score = rs[j].score) =>
                    /\ ~(rs[i].type = "manual" /\ rs[j].type = "faq")
                    /\ rs[i].type = "faq" /\ rs[j].type = "faq" =>
                          PositionIn(v.faq, rs[i]) < PositionIn(v.faq, rs[j])
                    /\ rs[i].type = "manual" /\ rs[j].type = "manual" =>
                          PositionIn(v.manual, rs[i]) < PositionIn(v.manual, rs[j])

\* a FAQ and a Manual result of equal score in the list, two FAQ results of
\* equal score in it, and a list cut at max_total_results
C5_Witness ==
    /\ fn = "search_ranked"
    /\ fnOut.done
    /\ Len(fnOut.value.results) = fnIn.max_total_results
    /\ Len(fnOut.value.faq) + Len(fnOut.value.manual) > fnIn.max_total_results
    /\ \E i, j \in 1..Len(fnOut.value.results) :
          /\ i < j
          /\ fnOut.value.results[i].score = fnOut.value.results[j].score
          /\ fnOut.value.results[i].type = "faq"
          /\ fnOut.value.results[j].type = "manual"
    /\ \E i, j \in 1..Len(fnOut.value.results) :
          /\ i < j
          /\ fnOut.value.results[i].score = fnOut.value.results[j].score
          /\ fnOut.value.results[i].type = "faq"
          /\ fnOut.value.results[j].type = "faq"

(* _determine_search_strategy *)

\* keyword kw occurs somewhere in text t
OccursIn(kw, t) ==
    \E i \in 1..Len(t) :
       /\ i + Len(kw) - 1 <= Len(t)
       /\ SubSeq(t, i, i + Len(kw) - 1) = kw

\* how often keyword kw occurs in text t
Occurrences(kw, t) ==
    Cardinality({i \in 1..Len(t) :
                    /\ i + Len(kw) - 1 <= Len(t)
                    /\ SubSeq(t, i, i + Len(kw) - 1) = kw})

\* the keywords of a set that occur in the lower-cased query, each counted
\* once however often it occurs
KeywordCount(keywords, query) ==
    Cardinality({k \in 1..Len(keywords) : OccursIn(keywords[k], Lower(query))})

ExpectedStrategy(query) ==
    LET faq_count    == KeywordCount(faq_keywords, query)
        manual_count == KeywordCount(manual_keywords, query)
    IN  CASE faq_count > manual_count -> "faq_focus"
          [] manual_count > faq_count -> "manual_focus"
          [] OTHER                    -> "balanced"

C6_WitnessFaq ==
    /\ fn = "determine_search_strategy"
    /\ fnOut.done
    /\ KeywordCount(faq_keywords, fnIn.query) = 2
    /\ fnOut.value = "faq_focus"

(* _calculate_confidence *)

SumScores(rs) == SumSeq([i \in 1..Len(rs) |-> rs[i].score])

TopScore(rs) == CHOOSE m \in {rs[i].score : i \in 1..Len(rs)} :
                   \A i \in 1..Len(rs) : rs[i].score <= m

\* the factor of a strategy tag, in hundredths
FactorPercent(strategy) ==
    CASE strategy = "faq_focus"    -> 90
      [] strategy = "manual_focus" -> 80
      [] strategy = "balanced"     -> 85
      [] strategy = "error"        -> 30
      [] OTHER                     -> 70

\* (0.6*max + 0.4*mean) * min(n/3, 1) * f as the fraction
\* ConfidenceNum / ConfidenceDen, the scores being in tenths
ConfidenceNum(rs, strategy) ==
    (6 * TopScore(rs) * Len(rs) + 4 * SumScores(rs))
    * (IF Len(rs) < 3 THEN Len(rs) ELSE 3) * FactorPercent(strategy)

ConfidenceDen(rs) == 100 * Len(rs) * 3 * 100

\* C7: the confidence of an empty list is 0.0 for every strategy tag; of n
\* results it is clamp((0.6*max + 0.4*mean) * min(n/3, 1) * f, 0, 1) with
\* f = 0.9, 0.8, 0.85, 0.3 for faq_focus, manual_focus, balanced, error and
\* 0.7 for any other tag; it always lies in [0, 1].
C7_ConfidenceFormula ==
    (fn = "calculate_confidence" /\ fnOut.done) =>
       LET v  == fnOut.value
           rs == fnIn.results
       IN  /\ v.den > 0
           /\ v.num >= 0
           /\ v.num <= v.den
           /\ rs = << >> => v.num = 0
           /\ rs # << >> =>
                LET num == ConfidenceNum(rs, fnIn.strategy)
                    den == ConfidenceDen(rs)
                    clamped == IF num < 0 THEN 0
                               ELSE IF num > den THEN den ELSE num
                IN  v.num * den = clamped * v.den

\* scores 1.0 and 0.5 under the error tag: 0.9 * 2/3 * 0.3 = 0.18
C7_Witness ==
    /\ fn = "calculate_confidence"
    /\ fnOut.done
    /\ fnIn.strategy = "error"
    /\ Len(fnIn.results) = 2
    /\ fnIn.results[1].score = 10
    /\ fnIn.results[2].score = 5
    /\ fnOut.value = [num |-> 9, den |-> 50]

\* an empty list under the faq_focus tag
C7_WitnessEmpty ==
    /\ fn = "calculate_confidence"
    /\ fnOut.done
    /\ fnIn.strategy = "faq_focus"
    /\ fnIn.results = << >>
    /\ fnOut.value.num = 0

(* The no-results path *)

\* a request answered after both adapters were asked and neither gave a
\* result
BothAdaptersEmpty ==
    /\ pc = "done"
    /\ ~Rejectable(question)
    /\ search_strategy \in {"faq_focus", "manual_focus", "balanced"}
    /\ \E i \in 1..Len(calls) : calls[i].type = "faq"
    /\ \E i \in 1..Len(calls) : calls[i].type = "manual"
    /\ faq_results = << >>
    /\ manual_results = << >>

\* the claim as the specification words it: the confidence is 0.1 whenever
\* both adapters came back empty
C8_AlwaysOneTenth ==
    BothAdaptersEmpty =>
       /\ prompt = "no_results"
       /\ response.sources = << >>
       /\ response.confidence = [num |-> 1, den |-> 10]

\* C8: when both adapters return no result for a validated question, the
\* synthesizer is given the no-results template and the response has no
\* sources; its confidence is the fixed 0.1 when the generation call
\* succeeds, and 0.0, with the template text as the answer, when the
\* generation call fails.
C8_NoResultsConfidence ==
    BothAdaptersEmpty =>
       /\ prompt = "no_results"
       /\ response.status = 200
       /\ response.sources = << >>
       /\ response.answer \in {"generated", "no_results_prompt"}
       /\ response.answer = "generated" =>
             response.confidence = [num |-> 1, den |-> 10]
       /\ response.answer = "no_results_prompt" =>
             response.confidence = [num |-> 0, den |-> 1]

\* both adapters empty and the generation call succeeded
C8_Witness ==
    /\ BothAdaptersEmpty
    /\ response.answer = "generated"
    /\ response.confidence = [num |-> 1, den |-> 10]

\* both adapters empty and the generation call failed
C8_WitnessFailed ==
    /\ BothAdaptersEmpty
    /\ response.answer = "no_results_prompt"
    /\ response.confidence = [num |-> 0, den |-> 1]

(* health_check *)

\* C9: the overall flag of the unified health check is true iff the FAQ
\* probe or the Manual probe is true, for each of the four combinations.
C9_OverallIsOr ==
    health_status.overall =
       (health_status.faq_engine \/ health_status.manual_engine)

\* FAQ adapter healthy, Manual adapter not: overall true
C9_Witness ==
    /\ health_status.faq_engine
    /\ ~health_status.manual_engine
    /\ health_status.overall

\* Manual adapter healthy, FAQ adapter not: overall true
C9_WitnessManualOnly ==
    /\ ~health_status.faq_engine
    /\ health_status.manual_engine
    /\ health_status.overall

\* both adapters healthy
C9_WitnessBoth ==
    /\ health_status.faq_engine
    /\ health_status.manual_engine
    /\ health_status.overall

(* The adapters *)

\* C10: every SearchResult an adapter returns has a score within [0, 1]
\* that equals max(0, 1 - distance) for the distance the index gave for
\* that neighbour, whatever distance the index gives.
C10_ScoreFromDistance ==
    (fn \in {"search_faq", "search_manual"} /\ fnOut.done) =>
       \A i \in 1..Len(fnOut.value.results) :
          LET r == fnOut.value.results[i]
          IN  /\ r.score >= 0
              /\ r.score <= 10
              /\ r.score = (IF r.original_distance >= 10
                            THEN 0 ELSE 10 - r.original_distance)

\* a neighbour at distance 1.2 returned with score 0, next to one at 0.3
C10_Witness ==
    /\ fn \in {"search_faq", "search_manual"}
    /\ fnOut.done
    /\ \E i \in 1..Len(fnOut.value.results) :
          /\ fnOut.value.results[i].original_distance = 12
          /\ fnOut.value.results[i].score = 0
    /\ \E i \in 1..Len(fnOut.value.results) :
          /\ fnOut.value.results[i].original_distance = 3
          /\ fnOut.value.results[i].score = 7

---------------------------------------------------------------------------
(* What a caller sees of the index *)

\* the fields of a SearchResult that hold the raw distance of its neighbour
RawDistanceFields(r) == {f \in DOMAIN r : f = "original_distance"}

\* C11 (as stated): callers never see raw index distances: no result an
\* adapter returned, no result of the fused list and no source of a response
\* carries the distance of its neighbour in any field
C11_NoRawDistance ==
    /\ \A i \in 1..Len(faq_results) : RawDistanceFields(faq_results[i]) = {}
    /\ \A i \in 1..Len(manual_results) :
           RawDistanceFields(manual_results[i]) = {}
    /\ \A i \in 1..Len(search_results) :
           RawDistanceFields(search_results[i]) = {}
    /\ \A i \in 1..Len(response.sources) :
           RawDistanceFields(response.sources[i]) = {}

---------------------------------------------------------------------------
(* search_faq and search_manual against a known index response *)

\* the arguments of one adapter call together with what the call meets
IndexedInputs ==
    [query : {login, << >>, << " " >>}, max_results : {None, 0, 2},
     min_score : {None, 0, 3, DefaultSimilarityThreshold}, cfg : Configs,
     env : SearchEnvs(MaxDocs)]

InitIndexed ==
    /\ IdleService
    /\ fn \in {"search_faq", "search_manual"}
    /\ fnIn \in IndexedInputs
    /\ fnOut = [done |-> FALSE]

CallSearchFaqIndexed ==
    /\ fn = "search_faq"
    /\ ~fnOut.done
    /\ fnOut' = [done |-> TRUE,
                 value |-> search_faq(fnIn.query, fnIn.max_results,
                                      fnIn.min_score, fnIn.cfg, fnIn.env)]
    /\ UNCHANGED << config, reqVars, health_status, fn, fnIn >>

CallSearchManualIndexed ==
    /\ fn = "search_manual"
    /\ ~fnOut.done
    /\ fnOut' = [done |-> TRUE,
                 value |-> search_manual(fnIn.query, fnIn.max_results,
                                         fnIn.min_score, fnIn.cfg, fnIn.env)]
    /\ UNCHANGED << config, reqVars, health_status, fn, fnIn >>

SpecIndexed ==
    InitIndexed /\ [][CallSearchFaqIndexed \/ CallSearchManualIndexed]_vars

\* the elements of a list
Range(s) == {s[i] : i \in 1..Len(s)}

\* the number of neighbours the call asked the index for (0: no query made)
RequestedFromIndex ==
    LET q == SelectSeq(fnOut.value.calls, LAMBDA c : c.op = "query")
    IN  IF q = << >> THEN 0 ELSE q[1].n_results

\* the neighbours the index handed back to the call
ReturnedNeighbours == Take(fnIn.env.distances, RequestedFromIndex)

\* the index answered and every neighbour makes a valid SearchResult
IndexAnswered ==
    /\ Strip(fnIn.query) # << >>
    /\ fnIn.env.embed
    /\ fnIn.env.index_ok
    /\ \A i \in 1..Len(ReturnedNeighbours) : ReturnedNeighbours[i] >= 0

\* C12 (as stated): a supplied min_score, 0.0 included, decides alone which
\* of the returned neighbours are results, whatever the configured
\* threshold; a supplied max_results is the number of neighbours requested
C12_ArgumentsOverrideConfig ==
    (fnOut.done /\ IndexAnswered) =>
        /\ fnIn.min_score # None =>
              {r.doc : r \in Range(fnOut.value.results)} =
                  {i \in 1..Len(ReturnedNeighbours) :
                      similarity_score(ReturnedNeighbours[i])
                          >= fnIn.min_score}
        /\ (fnIn.max_results # None /\ fnIn.max_results >= 1) =>
              RequestedFromIndex = fnIn.max_results

\* C13: for an empty or whitespace-only query an adapter search returns the
\* empty list at once: it makes no embedding call and no index query, and
\* it returns rather than raises
C13_EmptyQueryNoCalls ==
    (fn \in {"search_faq", "search_manual"} /\ Strip(fnIn.query) = << >>
     /\ fnOut.done) =>
        /\ fnOut.value.results = << >>
        /\ fnOut.value.calls = << >>

\* a whitespace-only query was searched in the FAQ collection while the
\* index held documents that a real query would have matched
C13_Witness ==
    /\ fn = "search_faq"
    /\ fnIn.query = << " " >>
    /\ fnIn.env.embed /\ fnIn.env.index_ok
    /\ fnIn.env.distances = << 0, 3 >>
    /\ fnOut.done
    /\ fnOut.value.results = << >>

\* the same for the empty query and the manual collection
C13_WitnessManual ==
    /\ fn = "search_manual"
    /\ fnIn.query = << >>
    /\ fnIn.env.distances = << 0 >>
    /\ fnOut.done
    /\ fnOut.value.calls = << >>

---------------------------------------------------------------------------
(* search_all against known index responses *)

SearchAllInputs ==
    [query : {login, << " " >>}, max_results_per_source : {1, FocusPerSource},
     min_score : {None, 3}, cfg : Configs,
     envF : SearchEnvs(MaxRankedDocs), envM : SearchEnvs(MaxRankedDocs)]

InitSearchAll ==
    /\ IdleService
    /\ fn = "search_all"
    /\ fnIn \in SearchAllInputs
    /\ fnOut = [done |-> FALSE]

CallSearchAll ==
    /\ fn = "search_all"
    /\ ~fnOut.done
    /\ fnOut' = [done |-> TRUE,
                 value |-> search_all(fnIn.query, fnIn.max_results_per_source,
                                      fnIn.min_score, fnIn.cfg,
                                      fnIn.envF, fnIn.envM)]
    /\ UNCHANGED << config, reqVars, health_status, fn, fnIn >>

SpecSearchAll == InitSearchAll /\ [][CallSearchAll]_vars

\* the embedder or the index raised during a search that met env
SourceFailed(env) == ~env.embed \/ ~env.index_ok

\* C14: search_all returns a mapping with both keys whatever happens; when
\* the embedder or the index fails during one source's search that source's
\* entry is the empty list and the other entry is what its adapter returned
C14_FailureIsolated ==
    (fn = "search_all" /\ fnOut.done) =>
        /\ {"faq", "manual"} \subseteq DOMAIN fnOut.value
        /\ (Strip(fnIn.query) # << >> /\ SourceFailed(fnIn.envF)) =>
              /\ fnOut.value.faq = << >>
              /\ fnOut.value.manual =
                     search_manual(fnIn.query, fnIn.max_results_per_source,
                                   fnIn.min_score, fnIn.cfg, fnIn.envM).results
        /\ (Strip(fnIn.query) # << >> /\ SourceFailed(fnIn.envM)) =>
              /\ fnOut.value.manual = << >>
              /\ fnOut.value.faq =
                     search_faq(fnIn.query, fnIn.max_results_per_source,
                                fnIn.min_score, fnIn.cfg, fnIn.envF).results

\* the FAQ index raised and the manual search still returned its two results
C14_Witness ==
    /\ fn = "search_all"
    /\ fnOut.done
    /\ fnIn.envF.embed /\ ~fnIn.envF.index_ok
    /\ fnIn.envM.distances = << 0, 3 >>
    /\ fnIn.max_results_per_source = FocusPerSource
    /\ fnOut.value.faq = << >>
    /\ Len(fnOut.value.manual) = 2

\* the embedder failed for the manual search only
C14_WitnessManualFails ==
    /\ fn = "search_all"
    /\ fnOut.done
    /\ ~fnIn.envM.embed
    /\ fnOut.value.manual = << >>
    /\ Len(fnOut.value.faq) = 1

---------------------------------------------------------------------------
(* POST /batch-ask: batch_ask_questions and
   SupportAgent.process_batch_questions.  fnIn.questions is the list of the
   request; fnOut.value.responses is the list `responses` of the loop, each
   response kept beside the question it answers. *)

\* api.py: len(questions) > 10 is refused
MaxBatchSize == 10

BatchLists ==
    {<< >>, << login >>, << login, tejun >>, << << " " >>, login >>,
     << login, << >> >>, << << >>, tejun >>,
     [i \in 1..(MaxBatchSize + 1) |-> login]}

InitBatch ==
    /\ config = DefaultConfig
    /\ IdleRequest
    /\ health_status = NoHealth
    /\ fn = "batch_ask"
    /\ fnIn \in [questions : BatchLists]
    /\ fnOut = [done |-> FALSE, value |-> [status |-> 0, responses |-> << >>]]

\* batch_ask_questions up to the call of process_batch_questions
BatchReceive ==
    /\ fn = "batch_ask"
    /\ pc = "idle"
    /\ ~fnOut.done
    /\ IF fnIn.questions = << >> \/ Len(fnIn.questions) > MaxBatchSize
       THEN /\ fnOut' = [done |-> TRUE,
                         value |-> [status |-> 400, responses |-> << >>]]
            /\ pc' = "idle"
       ELSE /\ fnOut' = fnOut
            /\ pc' = "batch_next"
    /\ UNCHANGED << config, question, context, faq_results, manual_results,
                    search_results, search_strategy, prompt, answer,
                    confidence, calls, elapsed, response, sent,
                    health_status, fn, fnIn >>

\* the head of the loop of process_batch_questions: the list is exhausted
\* and the responses are returned, or QuestionRequest(question=question)
\* is built and process_question starts; a ValidationError of
\* QuestionRequest (min_length=1) goes to the except clause, which
\* returns []
BatchNextItem ==
    /\ fn = "batch_ask"
    /\ pc = "batch_next"
    /\ LET i == Len(fnOut.value.responses) + 1
       IN  IF i > Len(fnIn.questions)
           THEN /\ fnOut' = [done |-> TRUE,
                             value |-> [status |-> 200,
                                        responses |-> fnOut.value.responses]]
                /\ pc' = "idle"
                /\ question' = << >>
           ELSE IF Len(fnIn.questions[i]) < 1
           THEN /\ fnOut' = [done |-> TRUE,
                             value |-> [status |-> 200, responses |-> << >>]]
                /\ pc' = "idle"
                /\ question' = << >>
           ELSE /\ fnOut' = fnOut
                /\ pc' = "validated"
                /\ question' = fnIn.questions[i]
    /\ UNCHANGED << config, context, faq_results, manual_results,
                    search_results, search_strategy, prompt, answer,
                    confidence, calls, elapsed, response, sent,
                    health_status, fn, fnIn >>

\* responses.append(response)
BatchCollect ==
    /\ fn = "batch_ask"
    /\ pc = "done"
    /\ fnOut' = [fnOut EXCEPT !.value.responses =
                    Append(@, [question |-> question, response |-> response])]
    /\ pc' = "batch_next"
    /\ question' = << >>
    /\ context' = {}
    /\ faq_results' = << >>
    /\ manual_results' = << >>
    /\ search_results' = << >>
    /\ search_strategy' = "none"
    /\ prompt' = "none"
    /\ answer' = ""
    /\ confidence' = Rat(0, 1)
    /\ calls' = << >>
    /\ elapsed' = 0
    /\ response' = NoResponse
    /\ sent' = 0
    /\ UNCHANGED << config, health_status, fn, fnIn >>

NextBatch ==
    \/ BatchReceive
    \/ BatchNextItem
    \/ Search
    \/ Generate
    \/ Return
    \/ BatchCollect

SpecBatch == InitBatch /\ [][NextBatch]_vars

\* C15 (as stated): a batch of 1 to 10 questions returns one response per
\* question, the i-th answering the i-th question; a question's pipeline
\* starts only when the responses of all questions before it are in the
\* list; a failure on one item leaves the other items' responses in place
C15_OneResponsePerQuestion ==
    /\ (fnOut.done /\ Len(fnIn.questions) \in 1..MaxBatchSize) =>
          /\ fnOut.value.status = 200
          /\ Len(fnOut.value.responses) = Len(fnIn.questions)
          /\ \A i \in 1..Len(fnIn.questions) :
                /\ fnOut.value.responses[i].question = fnIn.questions[i]
                /\ fnOut.value.responses[i].response.status \in {200, 500}
    /\ pc \in {"validated", "searched", "answered", "done"} =>
          /\ Len(fnOut.value.responses) < Len(fnIn.questions)
          /\ question = fnIn.questions[Len(fnOut.value.responses) + 1]

---------------------------------------------------------------------------
(* A failed completion call *)

\* the answer of the except clause of _generate_answer_with_sources
FixedApology == "generation_error"

\* the completion call of this request raised: the answer is not the text
\* the completion service wrote
GenerationFailed ==
    /\ pc \in {"answered", "done"}
    /\ Len(calls) > 0
    /\ calls[Len(calls)] = GenerateCall
    /\ answer # "generated"

\* C16 (as stated): when the completion call fails, with results or without,
\* the request is answered with the fixed apology, the same for every
\* question, and confidence 0.0
C16_ApologyOnFailure ==
    GenerationFailed =>
        /\ answer = FixedApology
        /\ confidence = Rat(0, 1)
        /\ pc = "done" =>
              /\ response.status = 200
              /\ response.answer = FixedApology
              /\ response.confidence = Rat(0, 1)

---------------------------------------------------------------------------
(* Process start: startup_event, get_support_agent and get_agent.
   fnIn is what the start meets; fnOut.value.support_agent tells whether
   the global support_agent of api.py was assigned. *)

\* each component comes up or raises
StartupEnvs ==
    [openai_client : BOOLEAN, models_list : BOOLEAN,
     faq_embedder : BOOLEAN, faq_chroma : BOOLEAN,
     manual_embedder : BOOLEAN, manual_chroma : BOOLEAN]

\* an adapter that puts off loading its embedding model: only the index
\* connection is needed at start
adapter_initialize_lazy(embedder_ok, chroma_ok) == chroma_ok

\* FAQSearchEngine._initialize and ManualSearchEngine._initialize: TRUE when
\* the constructor returns, FALSE when it raises
adapter_initialize(embedder_ok, chroma_ok) == embedder_ok /\ chroma_ok

\* UnifiedSearchEngine._initialize
unified_initialize(env) ==
    /\ adapter_initialize(env.faq_embedder, env.faq_chroma)
    /\ adapter_initialize(env.manual_embedder, env.manual_chroma)

\* SupportAgent._initialize with _health_check: the client, the search
\* engine, then models.list(); a search engine that is up but unhealthy
\* is logged only
agent_initialize(env) ==
    /\ env.openai_client
    /\ unified_initialize(env)
    /\ env.models_list

InitStartup ==
    /\ config = DefaultConfig
    /\ IdleRequest
    /\ health_status = NoHealth
    /\ fn = "startup"
    /\ fnIn \in StartupEnvs
    /\ fnOut = [done |-> FALSE]

\* startup_event: support_agent is assigned when get_support_agent returns
Startup ==
    /\ fn = "startup"
    /\ ~fnOut.done
    /\ fnOut' = [done |-> TRUE,
                 value |-> [support_agent |-> agent_initialize(fnIn)]]
    /\ UNCHANGED << config, reqVars, health_status, fn, fnIn >>

\* a request to /ask whose dependency get_agent returned the agent
AskWithAgent ==
    /\ fn = "startup"
    /\ fnOut.done
    /\ fnOut.value.support_agent
    /\ ReceiveAsk

\* a request to /ask or /batch-ask whose dependency get_agent raised 503
RefuseWithoutAgent ==
    /\ fn = "startup"
    /\ fnOut.done
    /\ ~fnOut.value.support_agent
    /\ pc = "idle"
    /\ response' = Rejection(503)
    /\ sent' = sent + 1
    /\ pc' = "done"
    /\ UNCHANGED << config, question, context, faq_results, manual_results,
                    search_results, search_strategy, prompt, answer,
                    confidence, calls, elapsed, health_status, fnVars >>

NextStartup ==
    \/ Startup
    \/ AskWithAgent
    \/ RefuseWithoutAgent
    \/ Validate
    \/ Search
    \/ Generate
    \/ Return
    \/ Finish

SpecStartup == InitStartup /\ [][NextStartup]_vars

\* a component of fnIn failed to come up
ComponentFailed ==
    \/ ~fnIn.openai_client \/ ~fnIn.models_list
    \/ ~fnIn.faq_embedder \/ ~fnIn.manual_embedder
    \/ ~fnIn.faq_chroma \/ ~fnIn.manual_chroma

\* C17: when the embedder, the index connection or the completion client
\* fails at process start no agent is installed and no request runs through
\* the retrieval pipeline: every request is refused with 503
C17_NoTrafficAfterFailedStart ==
    (fnOut.done /\ ComponentFailed) =>
        /\ ~fnOut.value.support_agent
        /\ pc \in {"idle", "done"}
        /\ calls = << >>
        /\ search_strategy = "none"
        /\ pc = "done" => response.status = 503

\* only the embedding model of the manual adapter failed to load, and a
\* request was refused
C17_Witness ==
    /\ fnOut.done
    /\ fnIn = [openai_client |-> TRUE, models_list |-> TRUE,
               faq_embedder |-> TRUE, faq_chroma |-> TRUE,
               manual_embedder |-> FALSE, manual_chroma |-> TRUE]
    /\ pc = "done"
    /\ response.status = 503

\* every component came up and a request was answered
C17_WitnessServing ==
    /\ fnOut.done
    /\ ~ComponentFailed
    /\ pc = "done"
    /\ response.status = 200
    /\ response.sources # << >>

---------------------------------------------------------------------------
(* POST /config between and during requests.  update_config and
   ask_question are coroutines of one event loop; neither reaches a
   suspension point after its body has started (every await of
   process_question is on a coroutine that only makes blocking calls), so
   the loop runs update_config only while no handler is running. *)

\* the ConfigUpdate bodies: the cap, the threshold and the model, each
\* absent or set
ConfigUpdatesAny ==
    [max_search_results : {None, 1}, similarity_threshold : {None, 0, 7},
     openai_model : {"None", "gpt-4"}]

\* the assignments of update_config to the shared config object
apply_config_update(cfg, u) ==
    [MAX_SEARCH_RESULTS |->
        IF u.max_search_results # None
        THEN u.max_search_results ELSE cfg.MAX_SEARCH_RESULTS,
     SIMILARITY_THRESHOLD |->
        IF u.similarity_threshold # None
        THEN u.similarity_threshold ELSE cfg.SIMILARITY_THRESHOLD,
     OPENAI_MODEL |->
        IF u.openai_model # "None"
        THEN u.openai_model ELSE cfg.OPENAI_MODEL]

\* update_config run by a second thread: it may come between two steps of
\* a request
UpdateConfigAny_in_flight ==
    /\ \E u \in ConfigUpdatesAny : config' = apply_config_update(config, u)
    /\ UNCHANGED << reqVars, health_status, fnVars >>

\* update_config with any body
UpdateConfigAny ==
    /\ pc = "idle"
    /\ \E u \in ConfigUpdatesAny : config' = apply_config_update(config, u)
    /\ UNCHANGED << reqVars, health_status, fnVars >>

NextConfig ==
    \/ ReceiveAsk
    \/ Validate
    \/ Search
    \/ Generate
    \/ Return
    \/ Finish
    \/ UpdateConfigAny

SpecConfig == Init /\ [][NextConfig]_vars

\* the request is past its search
Searched == pc \in {"searched", "answered", "done"}

---------------------------------------------------------------------------
(* Monotonicity of the confidence estimator *)

\* the score lists of ConfInputs that are not empty
ConfScoreLists == SeqsUpTo(ConfScores, MaxConfResults) \ {<< >>}

\* max(score) and mean(score) of a list of scores
MaxAndMean(scores) ==
    [max |-> MaxSeq(scores), mean |-> Rat(SumSeq(scores), Len(scores))]

\* the score lists with a given max(score) and mean(score)
ListsWithMaxAndMean ==
    [k \in {MaxAndMean(sc) : sc \in ConfScoreLists} |->
        {sc \in ConfScoreLists : MaxAndMean(sc) = k}]

\* the scores of a result list
ScoresOf(results) == [i \in 1..Len(results) |-> results[i].score]

\* the lists that differ from scores in one place, where the highest score
\* of scores has been replaced by a higher one
WithHigherMax(scores) ==
    {[scores EXCEPT ![i] = s] :
        i \in {j \in 1..Len(scores) : scores[j] = MaxSeq(scores)},
        s \in {t \in ConfScores : t > MaxSeq(scores)}}

\* C19: the confidence estimator is monotone: raising the highest score,
\* the strategy and the other scores unchanged, never lowers the
\* confidence; among lists with the same strategy, max(score) and
\* mean(score) the confidence does not decrease when the number of
\* results grows, and it is one value for every number of results >= 3
C19_ConfidenceMonotone ==
    (fn = "calculate_confidence" /\ fnOut.done /\ fnIn.results # << >>) =>
        /\ \A higher \in WithHigherMax(ScoresOf(fnIn.results)) :
              RLeq(fnOut.value,
                   calculate_confidence(ResultsOfScores(higher),
                                        fnIn.strategy))
        /\ \A other \in ListsWithMaxAndMean[MaxAndMean(ScoresOf(fnIn.results))] :
              /\ Len(other) >= Len(fnIn.results) =>
                    RLeq(fnOut.value,
                         calculate_confidence(ResultsOfScores(other),
                                              fnIn.strategy))
              /\ (Len(other) >= 3 /\ Len(fnIn.results) >= 3) =>
                    fnOut.value =
                        calculate_confidence(ResultsOfScores(other),
                                             fnIn.strategy)

\* one result of score 0.5 under faq_focus has confidence 0.15; the lists
\* (0.5, 0.5) and (0.5, 0.5, 0.5), of the same max and mean, exist and the
\* list (1.0) raises its highest score
C19_Witness ==
    /\ fn = "calculate_confidence"
    /\ fnOut.done
    /\ ScoresOf(fnIn.results) = << 5 >>
    /\ fnIn.strategy = "faq_focus"
    /\ fnOut.value = Rat(15, 100)
    /\ << 5, 5, 5 >> \in ListsWithMaxAndMean[MaxAndMean(<< 5 >>)]
    /\ << 10 >> \in WithHigherMax(<< 5 >>)

\* three results and four results of the same max and mean: the count
\* factor is saturated
C19_WitnessSaturated ==
    /\ fn = "calculate_confidence"
    /\ fnOut.done
    /\ ScoresOf(fnIn.results) = << 10, 5, 0 >>
    /\ << 10, 5, 5, 0 >> \in ListsWithMaxAndMean[MaxAndMean(<< 10, 5, 0 >>)]
    /\ fnOut.value = calculate_confidence(ResultsOfScores(<< 10, 5, 5, 0 >>),
                                          fnIn.strategy)

---------------------------------------------------------------------------
(* The threshold of an adapter search *)

\* the min_score in force for the call: the argument, or the configured
\* threshold when the argument is None or 0.0
MinScoreInEffect == OrDefault(fnIn.min_score, fnIn.cfg.SIMILARITY_THRESHOLD)

\* C20: no result of an adapter search has a score below the minimum score
\* in force for the call, and when every neighbour the index returned is
\* below it the adapter returns the empty list
C20_NothingBelowThreshold ==
    (fn \in {"search_faq", "search_manual"} /\ fnOut.done) =>
        /\ \A r \in Range(fnOut.value.results) : r.score >= MinScoreInEffect
        /\ (\A i \in 1..Len(ReturnedNeighbours) :
               similarity_score(ReturnedNeighbours[i]) < MinScoreInEffect)
              => fnOut.value.results = << >>

\* the index returned two neighbours, at distances 1.2 and 1.2, under the
\* threshold 0.7: the manual search returned nothing
C20_Witness ==
    /\ fn = "search_manual"
    /\ fnOut.done
    /\ fnIn.min_score = None
    /\ MinScoreInEffect = DefaultSimilarityThreshold
    /\ ReturnedNeighbours = << 12, 12 >>
    /\ fnOut.value.results = << >>

\* neighbours on both sides of the threshold 0.3: the nearer ones are kept
C20_WitnessKept ==
    /\ fn = "search_faq"
    /\ fnOut.done
    /\ fnIn.min_score = 3
    /\ fnIn.env.distances = << 0, 3, 12 >>
    /\ fnIn.max_results = None
    /\ Len(fnOut.value.results) = 2

---------------------------------------------------------------------------
(* The order and the length of an adapter's list *)

\* C21: the list an adapter search returns is sorted by score, highest
\* first; results of equal score stand in the order in which the index
\* returned their neighbours; the list is no longer than the number of
\* neighbours requested from the index
C21_SortedStableCapped ==
    (fn \in {"search_faq", "search_manual"} /\ fnOut.done) =>
        /\ \A i, j \in 1..Len(fnOut.value.results) :
              i < j =>
                 /\ fnOut.value.results[i].score >= fnOut.value.results[j].score
                 /\ fnOut.value.results[i].score = fnOut.value.results[j].score
                       => fnOut.value.results[i].doc < fnOut.value.results[j].doc
        /\ Len(fnOut.value.results) <= RequestedFromIndex

\* five neighbours, two asked for: both are returned, with equal scores, in
\* the order of the index
C21_Witness ==
    /\ fn = "search_faq"
    /\ fnOut.done
    /\ fnIn.max_results = 2
    /\ fnIn.env.distances = << 0, 0, 3, 3, 12 >>
    /\ RequestedFromIndex = 2
    /\ Len(fnOut.value.results) = 2
    /\ fnOut.value.results[1].doc = 1
    /\ fnOut.value.results[2].score = fnOut.value.results[1].score

---------------------------------------------------------------------------
(* smart_search against known index responses; fnIn.raises tells whether
   an exception occurs inside the try block of smart_search *)

SmartCallInputs ==
    [query : SmartQueries, context : Contexts, cfg : Configs,
     envF : SearchEnvs(MaxRankedDocs), envM : SearchEnvs(MaxRankedDocs),
     raises : BOOLEAN]

InitSmartCall ==
    /\ IdleService
    /\ fn = "smart_search"
    /\ fnIn \in SmartCallInputs
    /\ fnOut = [done |-> FALSE]

CallSmartSearchOn ==
    /\ fn = "smart_search"
    /\ ~fnOut.done
    /\ fnOut' = [done |-> TRUE,
                 value |-> smart_search(fnIn.query, fnIn.context, fnIn.cfg,
                                        fnIn.envF, fnIn.envM, fnIn.raises)]
    /\ UNCHANGED << config, reqVars, health_status, fn, fnIn >>

SpecSmartCall == InitSmartCall /\ [][CallSmartSearchOn]_vars

\* C22: smart_search returns on every call; an exception inside it gives
\* the empty list with the tag error, and a call without exception gives
\* one of the tags faq_focus, manual_focus, balanced, also when an embedder
\* or an index failed underneath
C22_ErrorTagIffException ==
    (fn = "smart_search" /\ fnOut.done) =>
        /\ fnIn.raises =>
              /\ fnOut.value.results = << >>
              /\ fnOut.value.strategy = "error"
        /\ ~fnIn.raises =>
              fnOut.value.strategy \in {"faq_focus", "manual_focus", "balanced"}
        /\ fnOut.value.strategy = "error" <=> fnIn.raises

\* an exception inside smart_search while both indexes had matches
C22_Witness ==
    /\ fn = "smart_search"
    /\ fnOut.done
    /\ fnIn.raises
    /\ fnIn.envF.distances = << 0 >>
    /\ fnIn.envM.distances = << 0, 3 >>
    /\ fnOut.value.strategy = "error"
    /\ fnOut.value.results = << >>

\* both adapters failed and no exception reached smart_search: the tag is
\* the classifier's
C22_WitnessAdaptersFailed ==
    /\ fn = "smart_search"
    /\ fnOut.done
    /\ ~fnIn.raises
    /\ ~fnIn.envF.embed
    /\ ~fnIn.envM.index_ok
    /\ fnIn.query = login
    /\ fnOut.value.strategy = "faq_focus"
    /\ fnOut.value.results = << >>

---------------------------------------------------------------------------
(* The prompt template of a request *)

\* the template that belongs to a pattern of non-empty subsets
TemplateFor(has_faq, has_manual) ==
    CASE has_faq /\ has_manual   -> "multi_source"
      [] has_faq /\ ~has_manual  -> "faq"
      [] ~has_faq /\ has_manual  -> "manual"
      [] OTHER                   -> "no_results"

\* C23: the template given to the completion call is decided by which of
\* the two subsets of the fused results, the FAQ results and the manual
\* results, are non-empty, and by nothing else: the strategy tag of the
\* request has no part in it
C23_TemplateByNonEmptiness ==
    pc \in {"answered", "done"} /\ prompt # "none" =>
        prompt = TemplateFor(\E r \in Range(search_results) : r.type = "faq",
                             \E r \in Range(search_results) : r.type = "manual")

\* a request ranked with manual_focus whose only result is a FAQ entry got
\* the FAQ-only template
C23_Witness ==
    /\ pc = "answered"
    /\ search_strategy = "manual_focus"
    /\ Len(search_results) = 1
    /\ search_results[1].type = "faq"
    /\ prompt = "faq"

\* the same pattern under another tag, and the same template
C23_WitnessOtherTag ==
    /\ pc = "answered"
    /\ search_strategy = "faq_focus"
    /\ Len(search_results) = 1
    /\ search_results[1].type = "faq"
    /\ prompt = "faq"

---------------------------------------------------------------------------
(* search_all called twice with the same arguments against the same index,
   with POST /config between the calls.  fnOut.value lists what each call
   returned and the configuration that was current at the call. *)

TwiceInputs ==
    [query : {login, << " " >>}, max_results_per_source : {0, 2},
     min_score : {None, 0, 3},
     envF : SearchEnvs(MaxAskDocs), envM : SearchEnvs(MaxAskDocs)]

InitTwice ==
    /\ config = DefaultConfig
    /\ IdleRequest
    /\ health_status = NoHealth
    /\ fn = "search_all_twice"
    /\ fnIn \in TwiceInputs
    /\ fnOut = [done |-> FALSE, value |-> << >>]

\* one call of search_all under the configuration of the moment
CallSearchAllAgain ==
    /\ fn = "search_all_twice"
    /\ ~fnOut.done
    /\ LET found == search_all(fnIn.query, fnIn.max_results_per_source,
                               fnIn.min_score, config, fnIn.envF, fnIn.envM)
           returned == Append(fnOut.value,
                              [faq |-> found.faq, manual |-> found.manual,
                               cfg |-> config])
       IN  fnOut' = [done |-> Len(returned) = 2, value |-> returned]
    /\ UNCHANGED << config, reqVars, health_status, fn, fnIn >>

SpecTwice == InitTwice /\ [][CallSearchAllAgain \/ UpdateConfigAny]_vars

\* the two calls returned the same lists
SameResultSets ==
    /\ fnOut.value[1].faq = fnOut.value[2].faq
    /\ fnOut.value[1].manual = fnOut.value[2].manual

\* C24 (as stated): two calls of search_all with identical arguments
\* against an unchanged index return identical result sets whatever
\* happens between them, configuration updates included
C24_IdempotentAlways ==
    (fn = "search_all_twice" /\ fnOut.done) => SameResultSets

\* C24 (amended): two calls of search_all with identical arguments against
\* an unchanged index return identical result sets when every value the
\* calls take from the configuration is the same at both calls: the
\* threshold if min_score is unset (None or 0.0), the result cap if
\* max_results_per_source is unset (None or 0)
C24_IdempotentUnderSameDefaults ==
    (/\ fn = "search_all_twice"
     /\ fnOut.done
     /\ \/ fnIn.min_score \notin {None, 0}
        \/ fnOut.value[1].cfg.SIMILARITY_THRESHOLD =
              fnOut.value[2].cfg.SIMILARITY_THRESHOLD
     /\ \/ fnIn.max_results_per_source \notin {None, 0}
        \/ fnOut.value[1].cfg.MAX_SEARCH_RESULTS =
              fnOut.value[2].cfg.MAX_SEARCH_RESULTS)
    => SameResultSets

\* the threshold was lowered from 0.7 to 0.0 between two calls that
\* supplied min_score 0.3: the FAQ neighbour at distance 1.2 was dropped by
\* both, the manual neighbour at distance 0.3 returned by both
C24_Witness ==
    /\ fn = "search_all_twice"
    /\ fnOut.done
    /\ fnIn.min_score = 3
    /\ fnIn.max_results_per_source = 2
    /\ fnOut.value[1].cfg.SIMILARITY_THRESHOLD = DefaultSimilarityThreshold
    /\ fnOut.value[2].cfg.SIMILARITY_THRESHOLD = 0
    /\ fnIn.envF.embed /\ fnIn.envF.index_ok
    /\ fnIn.envF.distances = << 12 >>
    /\ fnIn.envM.distances = << 3 >>
    /\ fnOut.value[2].faq = << >>
    /\ Len(fnOut.value[2].manual) = 1
    /\ SameResultSets

---------------------------------------------------------------------------
(* UnifiedSearchEngine.health_check against a known state of the index *)

InitHealth ==
    /\ IdleService
    /\ fn = "health_check"
    /\ fnIn \in [cfg : Configs, env : HealthEnvs]
    /\ fnOut = [done |-> FALSE]

CallHealthCheck ==
    /\ fn = "health_check"
    /\ ~fnOut.done
    /\ fnOut' = [done |-> TRUE, value |-> health_check(fnIn.cfg, fnIn.env)]
    /\ UNCHANGED << config, reqVars, health_status, fn, fnIn >>

SpecHealth == InitHealth /\ [][CallHealthCheck]_vars

\* the probe query of an adapter runs: its embedding call and its index
\* call both succeed
ProbeRuns(env) == env.embed /\ env.index_ok

\* C25 (as stated): an adapter's health_check is true exactly when the
\* source has documents of its own type and the probe query runs without
\* failing: it is false when the embedding or the index call of the probe
\* fails, and false for a source without documents of its own even if the
\* shared collection holds documents of the other type
C25_HealthIffOwnDocsAndProbe ==
    (fn = "health_check" /\ fnOut.done) =>
        /\ fnOut.value.faq_engine <=>
              (fnIn.env.count_ok /\ fnIn.env.faq > 0 /\ ProbeRuns(fnIn.env.envF))
        /\ fnOut.value.manual_engine <=>
              (fnIn.env.manual > 0 /\ ProbeRuns(fnIn.env.envM))

---------------------------------------------------------------------------
(* ManualSearchEngine.search_by_page_range.  pages[i] is metadata['page']
   of the i-th manual document of the index. *)

\* the results and the external calls of search_by_page_range; with
\* max_results None the product max_results * 2 raises TypeError, which the
\* except clause turns into []
search_by_page_range(query, start_page, end_page, max_results, cfg, env, pages) ==
    IF max_results = None THEN [results |-> << >>, calls |-> << >>]
    ELSE
      LET all_results == search_manual(query, max_results * 2, None, cfg, env)
          cap == OrDefault(max_results, cfg.MAX_SEARCH_RESULTS)
          in_range(r) == start_page <= pages[r.doc] /\ pages[r.doc] <= end_page
      IN  [results |-> Take(SelectSeq(all_results.results, in_range), cap),
           calls |-> all_results.calls]

PageRangeInputs ==
    [query : {login}, start_page : {1, 2}, end_page : {2, 3},
     max_results : {None, 1, 2}, cfg : Configs,
     env : SearchEnvs(MaxRankedDocs),
     pages : [1..MaxRankedDocs -> 1..3]]

InitPageRange ==
    /\ IdleService
    /\ fn = "search_by_page_range"
    /\ fnIn \in PageRangeInputs
    /\ fnOut = [done |-> FALSE]

CallSearchByPageRange ==
    /\ fn = "search_by_page_range"
    /\ ~fnOut.done
    /\ fnOut' = [done |-> TRUE,
                 value |-> search_by_page_range(
                               fnIn.query, fnIn.start_page, fnIn.end_page,
                               fnIn.max_results, fnIn.cfg, fnIn.env,
                               fnIn.pages)]
    /\ UNCHANGED << config, reqVars, health_status, fn, fnIn >>

SpecPageRange == InitPageRange /\ [][CallSearchByPageRange]_vars

\* the cap of the call: max_results, or the configured maximum when
\* max_results is not given
PageRangeCap ==
    IF fnIn.max_results = None THEN fnIn.cfg.MAX_SEARCH_RESULTS
    ELSE fnIn.max_results

\* the manual results of the over-fetch, twice the cap, that lie in the
\* page range
InRangeOfOverFetch ==
    SelectSeq(search_manual(fnIn.query, 2 * PageRangeCap, None, fnIn.cfg,
                            fnIn.env).results,
              LAMBDA r : /\ fnIn.start_page <= fnIn.pages[r.doc]
                         /\ fnIn.pages[r.doc] <= fnIn.end_page)

\* C26 (as stated): search_by_page_range asks the manual search for twice
\* the cap and returns, best score first, only results whose page is in
\* [start_page, end_page], at most the cap of them, the cap being
\* max_results or the configured maximum when max_results is unset; when
\* the over-fetched set has a result in range the list is not empty
C26_PageRangeFilter ==
    (fn = "search_by_page_range" /\ fnOut.done) =>
        /\ (fnIn.env.embed) => RequestedFromIndex = 2 * PageRangeCap
        /\ \A i \in 1..Len(fnOut.value.results) :
              /\ fnIn.start_page <= fnIn.pages[fnOut.value.results[i].doc]
              /\ fnIn.pages[fnOut.value.results[i].doc] <= fnIn.end_page
              /\ i > 1 => fnOut.value.results[i - 1].score
                             >= fnOut.value.results[i].score
        /\ Len(fnOut.value.results) <= PageRangeCap
        /\ InRangeOfOverFetch # << >> => fnOut.value.results # << >>

---------------------------------------------------------------------------
(* Validation in front of retrieval, for /ask and for /batch-ask *)

\* smart_search has been invoked for the current question
RetrievalInvoked ==
    /\ pc \in {"searched", "answered", "done"}
    /\ search_strategy # "none"

\* C27 (as stated): every question for which retrieval is invoked is
\* non-empty after stripping and at most 1000 characters long, also when
\* it is an item of a /batch-ask batch
C27_ValidatedBeforeRetrieval ==
    RetrievalInvoked =>
        /\ Strip(question) # << >>
        /\ Len(question) <= MaxQuestionLength

---------------------------------------------------------------------------
(* The tag error in the pipeline *)

\* C28: in the request pipeline a request whose strategy is error has an
\* empty result list, so its answer comes from the no-results path: the
\* response has no sources and confidence 0.1 (completion succeeded) or 0.0
\* (completion failed), and the factor 0.3 of the confidence formula is
\* applied to no response
C28_ErrorTagMeansNoResults ==
    search_strategy = "error" =>
        /\ search_results = << >>
        /\ pc \in {"answered", "done"} =>
              /\ prompt = "no_results"
              /\ confidence \in {Rat(1, 10), Rat(0, 1)}
              /\ confidence = Rat(1, 10) <=> answer = "generated"
        /\ pc = "done" =>
              /\ response.sources = << >>
              /\ response.confidence = confidence

\* a request whose search raised was answered with confidence 0.1
C28_Witness ==
    /\ pc = "done"
    /\ search_strategy = "error"
    /\ response.status = 200
    /\ response.sources = << >>
    /\ response.confidence = Rat(1, 10)

\* the same with a failed completion call: confidence 0.0
C28_WitnessFailed ==
    /\ pc = "done"
    /\ search_strategy = "error"
    /\ response.confidence = Rat(0, 1)
    /\ answer # "generated"

---------------------------------------------------------------------------
(* The external calls of one request *)

\* the positions of calls where the call satisfies test
CallPositions(test(_)) == {i \in 1..Len(calls) : test(calls[i])}

FaqCall(c) == c.type = "faq"

ManualCall(c) == c.type = "manual"

CompletionCall(c) == c.op = "generate"

\* C29: for a request, under every strategy, the FAQ adapter is searched at
\* most once (one embedding and one index query), then the manual adapter
\* at most once, and the completion service is called at most once, after
\* both searches have returned; nothing is retried
C29_EachStepOnce ==
    /\ \A engine \in {"faq", "manual"}, op \in {"encode", "query"} :
          Cardinality(CallPositions(LAMBDA c : c.type = engine /\ c.op = op)) <= 1
    /\ Cardinality(CallPositions(CompletionCall)) <= 1
    /\ \A i \in CallPositions(FaqCall), j \in CallPositions(ManualCall) : i < j
    /\ \A i \in CallPositions(CompletionCall) :
          /\ i = Len(calls)
          /\ pc \in {"answered", "done"}
    /\ pc \in {"idle", "received", "validated", "searched"} =>
          CallPositions(CompletionCall) = {}
    /\ pc \in {"idle", "received", "validated"} => calls = << >>

\* a request that searched both adapters and then called the completion
\* service: five calls in all
C29_Witness ==
    /\ pc = "done"
    /\ Len(calls) = 5
    /\ calls[1] = EncodeCall("faq")
    /\ calls[2].op = "query" /\ calls[2].type = "faq"
    /\ calls[3] = EncodeCall("manual")
    /\ calls[4].op = "query" /\ calls[4].type = "manual"
    /\ calls[5] = GenerateCall
    /\ search_strategy = "balanced"

---------------------------------------------------------------------------
(* A neighbour at a negative distance *)

\* the index answered the call and one of the neighbours it returned has a
\* distance below 0, hence a similarity above 1 that passes every min_score
NegativeDistanceReturned ==
    /\ Strip(fnIn.query) # << >>
    /\ fnIn.env.embed
    /\ fnIn.env.index_ok
    /\ \E i \in 1..Len(ReturnedNeighbours) :
          /\ ReturnedNeighbours[i] < 0
          /\ similarity_score(ReturnedNeighbours[i]) >= MinScoreInEffect

\* C30: when a neighbour returned by the index has a distance below 0 and
\* passes the minimum-score filter, building its SearchResult fails and the
\* adapter search returns the empty list: the other neighbours of the call
\* are dropped with it
C30_NegativeDistanceEmptiesAll ==
    (fn \in {"search_faq", "search_manual"} /\ fnOut.done
     /\ NegativeDistanceReturned) =>
        fnOut.value.results = << >>

\* neighbours at distances -0.1, 0.0 and 0.3 under the threshold 0.7: the
\* last two qualify and the FAQ search returns nothing
C30_Witness ==
    /\ fn = "search_faq"
    /\ fnOut.done
    /\ fnIn.min_score = None
    /\ fnIn.cfg.SIMILARITY_THRESHOLD = DefaultSimilarityThreshold
    /\ ReturnedNeighbours = << -1, 0, 3 >>
    /\ NegativeDistanceReturned
    /\ fnOut.value.results = << >>

===========================================================================
